---- MODULE Spec2Model ----
(***************************************************************************)
(* Buffer pool manager (src/buffer/buffer_pool_manager.cpp) and its LRU    *)
(* replacer (src/buffer/lru_replacer.cpp) as a state machine.  Every       *)
(* *Impl method is one atomic action; the disk manager and the Page class  *)
(* are external to the three source files and are modelled by their        *)
(* documented contract.  SpecConc runs FetchPageImpl statement by          *)
(* statement on several threads; SpecReplacer drives the replacer alone.   *)
(***************************************************************************)
EXTENDS Integers, Sequences, FiniteSets, TLC

\* ------------------------------------------------------------------ bounds
PoolSize == 1        \* pool_size_ handed to the constructor
NumDiskPages == 2    \* pages 0..NumDiskPages-1 exist on disk before the run
MaxPageId == 3       \* AllocatePage is not called once this many ids exist
MaxData == 1         \* buffer contents are abstracted to 0..MaxData, 0 = zeroed
NumThreads == 2      \* threads calling FetchPage concurrently
ReplacerCapacity == 3  \* num_pages of a replacer driven on its own
MaxFrameId == 3      \* frame ids 0..MaxFrameId are handed to that replacer

\* --------------------------------------------------------------- constants
NoFrame == 0 - 1           \* nullptr as a Page* result
INVALID_PAGE_ID == 0 - 1   \* "no page" sentinel

Frames == 0 .. (PoolSize - 1)
PageIds == 0 .. (MaxPageId - 1)
Values == 0 .. MaxData
GarbagePageIds == PageIds \cup {INVALID_PAGE_ID}
Threads == 1 .. NumThreads
ReplacerFrames == 0 .. MaxFrameId

VARIABLES
  page_table_,    \* page_id -> frame_id, NoFrame when there is no entry
  free_list_,     \* std::list<frame_id_t>
  pin_count_,     \* pages_[f].pin_count_
  is_dirty_,      \* pages_[f].is_dirty_
  data_,          \* pages_[f].data_
  pages,          \* LRUReplacer::pages, front = next victim
  num_pages,      \* LRUReplacer::num_pages
  next_page_id_,  \* disk manager's allocator
  dirtied,        \* page ids that were unpinned with is_dirty = true
  crashed,        \* the process ran into undefined behaviour and died
  thread,         \* per thread: position in FetchPageImpl and its locals
  older,          \* <<a, b>>: a and b are tracked, a was added before b
  last            \* the last call: its arguments, result and disk calls

vars == <<page_table_, free_list_, pin_count_, is_dirty_, data_, pages,
          next_page_id_, dirtied, crashed, thread, older,
          num_pages, last>>

bpm == <<page_table_, free_list_, pin_count_, is_dirty_, data_, pages>>

\* ----------------------------------------------------------------- helpers
Range(s) == {s[i] : i \in 1 .. Len(s)}

RemoveAt(s, i) == SubSeq(s, 1, i - 1) \o SubSeq(s, i + 1, Len(s))

FirstIndex(s, x) == CHOOSE i \in 1 .. Len(s) :
                      s[i] = x /\ \A j \in 1 .. (i - 1) : s[j] # x

Call(op, page_id, is_dirty, frame, ok, io) ==
  [op |-> op, page_id |-> page_id, is_dirty |-> is_dirty,
   frame |-> frame, ok |-> ok, io |-> io]

\* page_table_.size() and the keys of page_table_
Resident == {p \in PageIds : page_table_[p] # NoFrame}

\* the page-table entries a find_if on pair.second == frame_id can stop at
PagesOf(frame_id) == {p \in PageIds : page_table_[p] = frame_id}

\* GetFrameIdByPageId: the bool result
GetFrameIdByPageId(page_id) == page_table_[page_id] # NoFrame

\* ----------------------------------------------------------- LRU replacer
\* LRUReplacer::Pin: erase the frame when it is tracked
LRUPin(s, frame_id) ==
  IF frame_id \in Range(s) THEN RemoveAt(s, FirstIndex(s, frame_id)) ELSE s

\* an Unpin that refreshes the recency of a tracked frame
LRUUnpinRefresh(s, frame_id) ==
  IF frame_id \in Range(s)
  THEN Append(RemoveAt(s, FirstIndex(s, frame_id)), frame_id)
  ELSE Append(IF Len(s) >= num_pages THEN Tail(s) ELSE s, frame_id)

\* LRUReplacer::Unpin: no-op when tracked, else drop the front at capacity
\* and push_back
LRUUnpin(s, frame_id) ==
  IF frame_id \in Range(s) THEN s
  ELSE Append(IF Len(s) >= num_pages THEN Tail(s) ELSE s, frame_id)

\* LRUReplacer::Victim: the bool result, the frame and the list afterwards
VictimOk(s) == s # <<>>
\* a Victim that returns the most recently added frame
VictimFrameNewest(s) == s[Len(s)]
VictimFrame(s) == Head(s)
VictimRest(s) == Tail(s)

\* LRUReplacer::Size
LRUSize(s) == Len(s)

\* ------------------------------------------------------------ disk manager
\* the bytes ReadPage delivers.  Disk contents are outside the buffer pool:
\* every image read from disk is the non-zero value 1
DiskImage(page_id) == 1

WriteCall(page_id, v) == <<"WritePage", page_id, v>>
ReadCall(page_id, v) == <<"ReadPage", page_id, v>>
AllocateCall(page_id) == <<"AllocatePage", page_id, 0>>
DeallocateCall(page_id) == <<"DeallocatePage", page_id, 0>>

\* Page::ResetMemory, which lives in the Page class outside these files: the
\* buffer is zeroed and, as the design describes the eviction step ("clear
\* data and reset dirty"), the dirty flag is cleared
ResetData(d, frame_id) == [d EXCEPT ![frame_id] = 0]
ResetDirty(d, frame_id) == [d EXCEPT ![frame_id] = FALSE]

\* -------------------------------------------------------------------- Init
\* a thread that is in no call
IdleThread == [pc |-> "idle", page_id |-> INVALID_PAGE_ID, frame_id |-> NoFrame]

Init ==
  /\ page_table_ = [p \in PageIds |-> NoFrame]
  /\ free_list_ = [i \in 1 .. PoolSize |-> i - 1]
  /\ pin_count_ = [f \in Frames |-> 0]
  /\ is_dirty_ = [f \in Frames |-> FALSE]
  /\ data_ = [f \in Frames |-> 0]
  /\ pages = <<>>
  /\ num_pages = PoolSize
  /\ next_page_id_ = NumDiskPages
  /\ dirtied = {}
  /\ crashed = FALSE
  /\ thread = [t \in Threads |-> IdleThread]
  /\ older = {}
  /\ last = Call("Init", INVALID_PAGE_ID, FALSE, NoFrame, TRUE, <<>>)

\* ------------------------------------------------------------ FetchPageImpl
\* lines 71-83: read the page, install the mapping, pin
FetchInstall(page_id, frame_id, table, dirty, freeRest, lru, io) ==
  /\ data_' = [data_ EXCEPT ![frame_id] = DiskImage(page_id)]
  /\ page_table_' = [table EXCEPT ![page_id] = frame_id]
  /\ pages' = LRUPin(lru, frame_id)
  /\ pin_count_' = [pin_count_ EXCEPT
                      ![frame_id] = IF pin_count_[frame_id] <= 0 THEN 1
                                    ELSE pin_count_[frame_id]]
  /\ is_dirty_' = dirty
  /\ free_list_' = freeRest
  /\ last' = Call("Fetch", page_id, FALSE, frame_id, TRUE,
                  io \o <<ReadCall(page_id, DiskImage(page_id))>>)
  /\ UNCHANGED <<next_page_id_, crashed>>

\* lines 46-49: the page is resident
FetchHit(page_id) ==
  /\ pages' = LRUPin(pages, page_table_[page_id])
  /\ last' = Call("Fetch", page_id, FALSE, page_table_[page_id], TRUE, <<>>)
  /\ UNCHANGED <<page_table_, free_list_, pin_count_, is_dirty_,
                 data_, next_page_id_, crashed>>

\* lines 54-83: the free list is empty, ask the replacer
FetchFromReplacer(page_id) ==
  IF ~VictimOk(pages)
  THEN \* lines 55-57
       /\ last' = Call("Fetch", page_id, FALSE, NoFrame, FALSE, <<>>)
       /\ UNCHANGED <<bpm, next_page_id_, crashed>>
  ELSE \* lines 58-69
       LET frame_id == VictimFrame(pages) IN
       IF PagesOf(frame_id) = {}
       THEN \* pos == end(): pos->first and erase(pos) are undefined
            /\ crashed' = TRUE
            /\ pages' = VictimRest(pages)
            /\ last' = Call("Fetch", page_id, FALSE, NoFrame, FALSE, <<>>)
            /\ UNCHANGED <<page_table_, free_list_, pin_count_, is_dirty_,
                           data_, next_page_id_>>
       ELSE \E old_page_id \in PagesOf(frame_id) :
              FetchInstall(page_id, frame_id,
                [page_table_ EXCEPT ![old_page_id] = NoFrame],
                ResetDirty(is_dirty_, frame_id),
                free_list_, VictimRest(pages),
                IF is_dirty_[frame_id]
                THEN <<WriteCall(old_page_id, data_[frame_id])>>
                ELSE <<>>)

FetchPageImpl(page_id) ==
  /\ ~crashed
  /\ IF GetFrameIdByPageId(page_id)
     THEN FetchHit(page_id)
     ELSE IF free_list_ # <<>>
     THEN \* lines 51-53
          FetchInstall(page_id, Head(free_list_), page_table_, is_dirty_,
                       Tail(free_list_), pages, <<>>)
     ELSE FetchFromReplacer(page_id)

\* ------------------------------------------------------------ UnpinPageImpl
\* line 101
UnpinDirty(old_dirty, is_dirty) == is_dirty

UnpinPageImpl(page_id, is_dirty) ==
  /\ ~crashed
  /\ IF GetFrameIdByPageId(page_id)
     THEN LET frame_id == page_table_[page_id]
              old_pin_count == pin_count_[frame_id]
          IN
          /\ pin_count_' = [pin_count_ EXCEPT ![frame_id] =
                              IF old_pin_count = 1 THEN 0
                              ELSE IF old_pin_count > 1 THEN old_pin_count - 1
                              ELSE old_pin_count]
          /\ pages' = IF old_pin_count = 1 THEN LRUUnpin(pages, frame_id)
                      ELSE pages
          /\ is_dirty_' = [is_dirty_ EXCEPT ![frame_id] =
                             UnpinDirty(is_dirty_[frame_id], is_dirty)]
          /\ last' = Call("Unpin", page_id, is_dirty, frame_id,
                          old_pin_count > 0, <<>>)
          /\ UNCHANGED <<page_table_, free_list_, data_, next_page_id_,
                         crashed>>
     ELSE /\ last' = Call("Unpin", page_id, is_dirty, NoFrame, FALSE, <<>>)
          /\ UNCHANGED <<bpm, next_page_id_, crashed>>

\* ------------------------------------------------------------ FlushPageImpl
\* a flush that writes only a dirty page and then marks it clean
FlushPageOnlyDirty(page_id) ==
  /\ ~crashed
  /\ IF GetFrameIdByPageId(page_id)
     THEN /\ last' = Call("Flush", page_id, FALSE, page_table_[page_id], TRUE,
                          IF is_dirty_[page_table_[page_id]]
                          THEN <<WriteCall(page_id,
                                           data_[page_table_[page_id]])>>
                          ELSE <<>>)
          /\ is_dirty_' = [is_dirty_ EXCEPT ![page_table_[page_id]] = FALSE]
     ELSE /\ last' = Call("Flush", page_id, FALSE, NoFrame, FALSE, <<>>)
          /\ UNCHANGED is_dirty_
  /\ UNCHANGED <<page_table_, free_list_, pin_count_, data_, pages,
                 next_page_id_, crashed>>

FlushPageImpl(page_id) ==
  /\ ~crashed
  /\ IF GetFrameIdByPageId(page_id)
     THEN last' = Call("Flush", page_id, FALSE, page_table_[page_id], TRUE,
                       <<WriteCall(page_id, data_[page_table_[page_id]])>>)
     ELSE last' = Call("Flush", page_id, FALSE, NoFrame, FALSE, <<>>)
  /\ UNCHANGED <<bpm, next_page_id_, crashed>>

\* -------------------------------------------------------------- NewPageImpl
\* lines 141-149: the feasibility pre-check
NewPageRefused ==
  /\ Cardinality(Resident) >= PoolSize
  /\ ~ \E p \in Resident : pin_count_[page_table_[p]] <= 0

\* lines 166-175: write back when dirty, install the mapping, pin
NewInstall(page_id, frame_id, old_page_id, freeRest, lru) ==
  LET wr == is_dirty_[frame_id] IN
  /\ data_' = IF wr THEN ResetData(data_, frame_id) ELSE data_
  /\ is_dirty_' = IF wr THEN ResetDirty(is_dirty_, frame_id) ELSE is_dirty_
  /\ page_table_' = [page_table_ EXCEPT ![page_id] = frame_id]
  /\ pin_count_' = [pin_count_ EXCEPT ![frame_id] = pin_count_[frame_id] + 1]
  /\ free_list_' = freeRest
  /\ pages' = lru
  /\ next_page_id_' = next_page_id_ + 1
  /\ last' = Call("NewPage", page_id, FALSE, frame_id, TRUE,
                  <<AllocateCall(page_id)>> \o
                  (IF wr THEN <<WriteCall(old_page_id, data_[frame_id])>>
                   ELSE <<>>))
  /\ UNCHANGED crashed

\* old_page_id after the find_if of lines 162-164; it is read only when the
\* frame is dirty, and is indeterminate when find_if stopped at end()
OldPageIds(frame_id) ==
  IF ~is_dirty_[frame_id] THEN {INVALID_PAGE_ID}
  ELSE IF PagesOf(frame_id) = {} THEN GarbagePageIds
  ELSE PagesOf(frame_id)

NewPageImpl ==
  /\ ~crashed
  /\ IF NewPageRefused
     THEN /\ last' = Call("NewPage", INVALID_PAGE_ID, FALSE, NoFrame, FALSE,
                          <<>>)
          /\ UNCHANGED <<bpm, next_page_id_, crashed>>
     ELSE /\ next_page_id_ < MaxPageId
          /\ LET page_id == next_page_id_ IN
             IF free_list_ # <<>>
             THEN \* lines 157-159: old_page_id stays uninitialized
                  \E old_page_id \in
                       (IF is_dirty_[Head(free_list_)] THEN GarbagePageIds
                        ELSE {INVALID_PAGE_ID}) :
                    NewInstall(page_id, Head(free_list_), old_page_id,
                               Tail(free_list_), pages)
             ELSE IF VictimOk(pages)
             THEN \* lines 161-164
                  \E old_page_id \in OldPageIds(VictimFrame(pages)) :
                    NewInstall(page_id, VictimFrame(pages), old_page_id,
                               free_list_, VictimRest(pages))
             ELSE \* Victim returned false: frame_id is uninitialized, it is
                  \* either some frame of the pool or out of range
                  \/ \E frame_id \in Frames :
                       \E old_page_id \in OldPageIds(frame_id) :
                         NewInstall(page_id, frame_id, old_page_id,
                                    free_list_, pages)
                  \/ /\ crashed' = TRUE
                     /\ next_page_id_' = next_page_id_ + 1
                     /\ last' = Call("NewPage", page_id, FALSE, NoFrame,
                                     FALSE, <<AllocateCall(page_id)>>)
                     /\ UNCHANGED bpm

\* ----------------------------------------------------------- DeletePageImpl
\* a pin check that lets a page with one pin be deleted
DeleteRefusedOffByOne(pin_count) == pin_count > 1

\* line 189: someone is using the page
DeleteRefused(pin_count) == pin_count > 0

DeletePageImpl(page_id) ==
  /\ ~crashed
  /\ IF GetFrameIdByPageId(page_id)
     THEN LET frame_id == page_table_[page_id] IN
          IF DeleteRefused(pin_count_[frame_id])
          THEN /\ last' = Call("Delete", page_id, FALSE, frame_id, FALSE,
                               <<DeallocateCall(page_id)>>)
               /\ UNCHANGED <<bpm, next_page_id_, crashed>>
          ELSE /\ page_table_' = [page_table_ EXCEPT ![page_id] = NoFrame]
               /\ data_' = ResetData(data_, frame_id)
               /\ is_dirty_' = ResetDirty(is_dirty_, frame_id)
               /\ free_list_' = Append(free_list_, frame_id)
               /\ last' = Call("Delete", page_id, FALSE, frame_id, TRUE,
                               <<DeallocateCall(page_id)>>)
               /\ UNCHANGED <<pin_count_, pages, next_page_id_, crashed>>
     ELSE /\ last' = Call("Delete", page_id, FALSE, NoFrame, TRUE,
                          <<DeallocateCall(page_id)>>)
          /\ UNCHANGED <<bpm, next_page_id_, crashed>>

\* -------------------------------------------------------- FlushAllPagesImpl
\* FlushPage for every entry of the page table.  The iteration order of the
\* unordered_map is unspecified and the calls are independent of each other:
\* they are recorded in ascending page id order.
SortedSeq(S) ==
  [i \in 1 .. Cardinality(S) |->
     CHOOSE p \in S : Cardinality({q \in S : q < p}) = i - 1]

FlushAllPagesImpl ==
  /\ ~crashed
  /\ last' = Call("FlushAll", INVALID_PAGE_ID, FALSE, NoFrame, TRUE,
                  [i \in 1 .. Cardinality(Resident) |->
                     WriteCall(SortedSeq(Resident)[i],
                               data_[page_table_[SortedSeq(Resident)[i]]])])
  /\ UNCHANGED <<bpm, next_page_id_, crashed>>

\* ---------------------------------------------------------------- callers
\* a caller holding a pin writes into the frame's buffer through the Page*
CallerWrite(frame_id, v) ==
  /\ ~crashed
  /\ pin_count_[frame_id] > 0
  /\ data_[frame_id] # v
  /\ data_' = [data_ EXCEPT ![frame_id] = v]
  /\ last' = Call("Write", INVALID_PAGE_ID, FALSE, frame_id, TRUE, <<>>)
  /\ UNCHANGED <<page_table_, free_list_, pin_count_, is_dirty_, pages,
                 next_page_id_, crashed>>

\* page ids a caller can ask for: the ones the disk manager has issued
Allocated == 0 .. (next_page_id_ - 1)

\* the history of dirty unpins
Track(page_id, is_dirty) ==
  IF is_dirty /\ GetFrameIdByPageId(page_id) THEN dirtied \cup {page_id}
  ELSE dirtied

\* a step that records nothing in the history, keeps the replacer capacity
\* and is taken by a caller that runs alone
Untracked == UNCHANGED <<dirtied, num_pages, thread, older>>

Next ==
  \/ \E page_id \in Allocated : FetchPageImpl(page_id) /\ Untracked
  \/ \E page_id \in Allocated, is_dirty \in BOOLEAN :
       UnpinPageImpl(page_id, is_dirty) /\ Untracked
  \/ NewPageImpl /\ Untracked
  \/ \E page_id \in Allocated : DeletePageImpl(page_id) /\ Untracked
  \/ \E page_id \in Allocated : FlushPageImpl(page_id) /\ Untracked
  \/ FlushAllPagesImpl /\ Untracked
  \/ \E frame_id \in Frames, v \in 1 .. MaxData :
       CallerWrite(frame_id, v) /\ Untracked

Spec == Init /\ [][Next]_vars

\* the same program when no caller flushes explicitly, with the history of
\* dirty unpins recorded
NextNoFlush ==
  \/ \E page_id \in Allocated : FetchPageImpl(page_id) /\ Untracked
  \/ \E page_id \in Allocated, is_dirty \in BOOLEAN :
       /\ UnpinPageImpl(page_id, is_dirty)
       /\ dirtied' = Track(page_id, is_dirty)
       /\ UNCHANGED <<num_pages, thread, older>>
  \/ NewPageImpl /\ Untracked
  \/ \E page_id \in Allocated : DeletePageImpl(page_id) /\ Untracked
  \/ \E frame_id \in Frames, v \in 1 .. MaxData :
       CallerWrite(frame_id, v) /\ Untracked

SpecNoFlush == Init /\ [][NextNoFlush]_vars

\* ------------------------------------------------------ concurrent callers
\* FetchPageImpl takes no latch: its statements interleave with the
\* statements of the same method running on another thread.  A thread is at
\* "lookup" before line 46, at "pop" between lines 52 and 53, and at
\* "install" between lines 53 and 71.
Goto(t, pc, page_id, frame_id) ==
  thread' = [thread EXCEPT ![t] =
               [pc |-> pc, page_id |-> page_id, frame_id |-> frame_id]]

Return(t) == thread' = [thread EXCEPT ![t] = IdleThread]

\* line 36: the call is entered
FetchEnter(t, page_id) ==
  /\ ~crashed
  /\ thread[t].pc = "idle"
  /\ Goto(t, "lookup", page_id, NoFrame)
  /\ UNCHANGED <<bpm, next_page_id_, crashed, last>>

\* lines 46-52: hit, or read free_list_.front(), or go to the replacer
FetchLookup(t) ==
  /\ ~crashed
  /\ thread[t].pc = "lookup"
  /\ IF GetFrameIdByPageId(thread[t].page_id)
     THEN FetchHit(thread[t].page_id) /\ Return(t)
     ELSE IF free_list_ # <<>>
     THEN /\ Goto(t, "pop", thread[t].page_id, Head(free_list_))
          /\ UNCHANGED <<bpm, next_page_id_, crashed, last>>
     ELSE FetchFromReplacer(thread[t].page_id) /\ Return(t)

\* line 53: free_list_.pop_front(); on a list another thread has emptied
\* in the meantime the call is undefined: the process dies or goes on
FetchPop(t) ==
  /\ ~crashed
  /\ thread[t].pc = "pop"
  /\ IF free_list_ # <<>>
     THEN free_list_' = Tail(free_list_) /\ UNCHANGED crashed
     ELSE UNCHANGED free_list_ /\ crashed' \in BOOLEAN
  /\ Goto(t, "install", thread[t].page_id, thread[t].frame_id)
  /\ UNCHANGED <<page_table_, pin_count_, is_dirty_, data_, pages,
                 next_page_id_, last>>

\* lines 71-83
FetchFinish(t) ==
  /\ ~crashed
  /\ thread[t].pc = "install"
  /\ FetchInstall(thread[t].page_id, thread[t].frame_id, page_table_,
                  is_dirty_, free_list_, pages, <<>>)
  /\ Return(t)

NextConc ==
  \/ \E t \in Threads, page_id \in Allocated :
       FetchEnter(t, page_id) /\ UNCHANGED <<dirtied, num_pages, older>>
  \/ \E t \in Threads : FetchLookup(t) /\ UNCHANGED <<dirtied, num_pages, older>>
  \/ \E t \in Threads : FetchPop(t) /\ UNCHANGED <<dirtied, num_pages, older>>
  \/ \E t \in Threads : FetchFinish(t) /\ UNCHANGED <<dirtied, num_pages, older>>
  \/ \E t \in Threads, page_id \in Allocated, is_dirty \in BOOLEAN :
       /\ thread[t].pc = "idle"
       /\ UnpinPageImpl(page_id, is_dirty)
       /\ Untracked

SpecConc == Init /\ [][NextConc]_vars

\* ------------------------------------------------------ the replacer alone
\* LRUReplacer(ReplacerCapacity), lines 18-20, with no buffer pool in front
InitReplacer ==
  /\ page_table_ = [p \in PageIds |-> NoFrame]
  /\ free_list_ = [i \in 1 .. PoolSize |-> i - 1]
  /\ pin_count_ = [f \in Frames |-> 0]
  /\ is_dirty_ = [f \in Frames |-> FALSE]
  /\ data_ = [f \in Frames |-> 0]
  /\ pages = <<>>
  /\ num_pages = ReplacerCapacity
  /\ next_page_id_ = NumDiskPages
  /\ dirtied = {}
  /\ crashed = FALSE
  /\ thread = [t \in Threads |-> IdleThread]
  /\ older = {}
  /\ last = Call("LRUReplacer", INVALID_PAGE_ID, FALSE, NoFrame, TRUE, <<>>)

\* the order in which the tracked frames were added, kept beside the list:
\* pairs of frames that left are dropped, a frame that is added is younger
\* than every frame that stays
Older(before, after) ==
  {pr \in older : pr[1] \in after /\ pr[2] \in after}
    \cup {<<a, b>> : a \in after \cap before, b \in after \ before}

\* a replacer call changes the replacer only
ReplacerOnly ==
  /\ older' = Older(Range(pages), Range(pages'))
  /\ UNCHANGED <<page_table_, free_list_, pin_count_, is_dirty_, data_,
                 num_pages, next_page_id_, dirtied, crashed, thread>>

\* LRUReplacer::Victim, lines 24-32; *frame_id is not written on failure
LRUVictimCall ==
  /\ pages' = IF VictimOk(pages) THEN VictimRest(pages) ELSE pages
  /\ last' = Call("LRUVictim", INVALID_PAGE_ID, FALSE,
                  IF VictimOk(pages) THEN VictimFrame(pages) ELSE NoFrame,
                  VictimOk(pages), <<>>)

LRUPinCall(frame_id) ==
  /\ pages' = LRUPin(pages, frame_id)
  /\ last' = Call("LRUPin", INVALID_PAGE_ID, FALSE, frame_id, TRUE, <<>>)

LRUUnpinCall(frame_id) ==
  /\ pages' = LRUUnpin(pages, frame_id)
  /\ last' = Call("LRUUnpin", INVALID_PAGE_ID, FALSE, frame_id, TRUE, <<>>)

NextReplacer ==
  \/ LRUVictimCall /\ ReplacerOnly
  \/ \E frame_id \in ReplacerFrames : LRUPinCall(frame_id) /\ ReplacerOnly
  \/ \E frame_id \in ReplacerFrames : LRUUnpinCall(frame_id) /\ ReplacerOnly

SpecReplacer == InitReplacer /\ [][NextReplacer]_vars

TypeOK ==
  /\ page_table_ \in [PageIds -> Frames \cup {NoFrame}]
  /\ Range(free_list_) \subseteq Frames
  /\ pin_count_ \in [Frames -> Nat]
  /\ is_dirty_ \in [Frames -> BOOLEAN]
  /\ data_ \in [Frames -> Values]
  /\ Range(pages) \subseteq Frames
  /\ next_page_id_ \in NumDiskPages .. MaxPageId
  /\ dirtied \subseteq PageIds
  /\ crashed \in BOOLEAN
  /\ num_pages = PoolSize
  /\ thread \in [Threads -> [pc : {"idle", "lookup", "pop", "install"},
                              page_id : PageIds \cup {INVALID_PAGE_ID},
                              frame_id : Frames \cup {NoFrame}]]
  /\ older \subseteq (ReplacerFrames \X ReplacerFrames)

\* ================================================================== claims
\* the step just taken was a Fetch miss or a NewPage that handed out a frame
Reused(frame_id) ==
  /\ last'.op \in {"Fetch", "NewPage"}
  /\ last'.frame = frame_id
  /\ page_table_[last'.page_id] = NoFrame

\* every resident page sits in a frame with pin_count > 0
AllResidentPinned == \A p \in Resident : pin_count_[page_table_[p]] > 0

\* C1: a frame whose page is pinned (pin_count > 0) is never chosen by a
\* Fetch miss or a NewPage, from the free list or as victim, to hold a
\* different page.
C1_PinnedFrameNeverReused ==
  [][\A f \in Frames :
       Reused(f) => ~(PagesOf(f) # {} /\ pin_count_[f] > 0)]_vars

\* C2: a Fetch or NewPage that reuses a frame whose dirty flag is set issues
\* WritePage with the id of a page that occupied the frame and with the
\* frame's data as they were before the frame was cleared or remapped.
C2_DirtyFrameWrittenBack ==
  [][\A f \in Frames :
       (Reused(f) /\ is_dirty_[f]) =>
         \E p \in PagesOf(f) : \E i \in 1 .. Len(last'.io) :
           /\ last'.io[i] = WriteCall(p, data_[f])
           /\ \A j \in 1 .. (i - 1) : last'.io[j][1] # "ReadPage"]_vars

\* C3: Unpin(page_id, dirty_flag) of a resident page leaves the frame's dirty
\* flag at (old dirty OR dirty_flag): a set flag is never cleared by Unpin.
C3_UnpinOrsDirty ==
  [][(last'.op = "Unpin" /\ last'.frame # NoFrame) =>
       is_dirty_'[last'.frame] = (is_dirty_[last'.frame] \/ last'.is_dirty)]_vars

\* C4: in every reachable state the number of page-table entries plus the
\* length of the free list equals the pool size.
C4_TablePlusFreeIsPoolSize ==
  Cardinality(Resident) + Len(free_list_) = PoolSize

\* C5: every frame is in at most one of the free list and the replacer, and a
\* frame with pin_count > 0 is in neither.
C5_FreeReplacerPinnedDisjoint ==
  \A f \in Frames :
    /\ ~(f \in Range(free_list_) /\ f \in Range(pages))
    /\ pin_count_[f] > 0 => (f \notin Range(free_list_) /\ f \notin Range(pages))

\* C6: the page table and frame occupancy are inverse to each other: no two
\* page ids map to the same frame, and a frame has a page-table entry exactly
\* when it is not free.
C6_PageTableBijection ==
  \A f \in Frames :
    /\ Cardinality(PagesOf(f)) <= 1
    /\ (PagesOf(f) = {}) <=> (f \in Range(free_list_))

\* C7: a Fetch of a resident page returns its frame, removes the frame from
\* the replacer and increments its pin_count by exactly one.
C7_FetchHitPins ==
  [][(last'.op = "Fetch" /\ page_table_[last'.page_id] # NoFrame) =>
       /\ last'.frame = page_table_[last'.page_id]
       /\ last'.frame \notin Range(pages')
       /\ pin_count_'[last'.frame] = pin_count_[last'.frame] + 1]_vars

\* C8: Fetch returns null only when the free list is empty and every resident
\* frame has pin_count > 0.
C8_FetchFailsOnlyWhenAllPinned ==
  [][(last'.op = "Fetch" /\ last'.frame = NoFrame /\ ~crashed') =>
       (free_list_ = <<>> /\ AllResidentPinned)]_vars

\* C9: NewPage returns null if and only if the free list is empty and every
\* resident frame has pin_count > 0.
C9_NewPageFailsIffAllPinned ==
  [][(last'.op = "NewPage" /\ ~crashed') =>
       ((last'.frame = NoFrame) <=>
          (free_list_ = <<>> /\ AllResidentPinned))]_vars

\* C10: without explicit flushes, WritePage is never issued for a page id
\* that was never unpinned with dirty = true.
C10_NoWriteOfCleanPage ==
  \A i \in 1 .. Len(last.io) :
    (last.io[i][1] = "WritePage" /\ last.io[i][2] \in PageIds) =>
      last.io[i][2] \in dirtied

\* C11: Unpin of a resident page whose pin_count is already 0 returns false
\* and changes nothing: pin_count, dirty flag, replacer, page table and free
\* list are as before.
C11_OverUnpinMutatesNothing ==
  [][(last'.op = "Unpin" /\ last'.frame # NoFrame
        /\ pin_count_[last'.frame] = 0) =>
       (~last'.ok /\ bpm' = bpm)]_vars

\* C12: DeletePage of a resident page with pin_count > 0 returns false and
\* leaves page table, pin counts, dirty flags, data, free list and replacer
\* unchanged.
C12_DeletePinnedRefused ==
  [][(last'.op = "Delete" /\ page_table_[last'.page_id] # NoFrame
        /\ pin_count_[page_table_[last'.page_id]] > 0) =>
       (~last'.ok /\ bpm' = bpm)]_vars

\* a DeletePage of a resident, pinned page has just returned
C12_Witness ==
  /\ last.op = "Delete"
  /\ ~last.ok
  /\ page_table_[last.page_id] # NoFrame
  /\ pin_count_[page_table_[last.page_id]] > 0

\* C13: every frame in the free list has no page-table entry mapping to it,
\* is clean and has pin_count 0.
C13_FreeFramesAreReset ==
  \A i \in 1 .. Len(free_list_) :
    /\ PagesOf(free_list_[i]) = {}
    /\ ~is_dirty_[free_list_[i]]
    /\ pin_count_[free_list_[i]] = 0

\* C14: concurrent calls behave as if run one at a time; in particular two
\* threads that are both inside a Fetch miss never hold the same frame taken
\* from the free list.
C14_FreeFrameTakenOnce ==
  \A t1 \in Threads, t2 \in Threads :
    (t1 # t2 /\ thread[t1].pc \in {"pop", "install"}
             /\ thread[t2].pc \in {"pop", "install"}) =>
      thread[t1].frame_id # thread[t2].frame_id

\* C15: Victim on a non-empty replacer returns true and removes exactly the
\* tracked frame that was added before every other tracked frame; on an
\* empty replacer it returns false and changes nothing.
C15_VictimIsLeastRecentlyUnpinned ==
  [][last'.op = "LRUVictim" =>
       IF pages = <<>>
       THEN ~last'.ok /\ pages' = pages
       ELSE /\ last'.ok
            /\ last'.frame \in Range(pages)
            /\ \A a \in Range(pages) \ {last'.frame} :
                 <<last'.frame, a>> \in older
            /\ Range(pages') = Range(pages) \ {last'.frame}
            /\ Len(pages') = Len(pages) - 1]_vars

\* a Victim call has returned a frame while a frame with a smaller id, added
\* later, stays tracked
C15_Witness ==
  /\ last.op = "LRUVictim"
  /\ last.ok
  /\ \E a \in Range(pages) : a < last.frame

\* C16: FlushPage returns true iff the page is resident, then issues exactly
\* one WritePage of the frame's data whatever the dirty flag is; page table,
\* free list, replacer, pin counts and dirty flags are unchanged either way.
C16_FlushWritesOnceChangesNothing ==
  [][last'.op = "Flush" =>
       /\ last'.ok = GetFrameIdByPageId(last'.page_id)
       /\ last'.io = IF GetFrameIdByPageId(last'.page_id)
                     THEN <<WriteCall(last'.page_id,
                                      data_[page_table_[last'.page_id]])>>
                     ELSE <<>>
       /\ bpm' = bpm]_vars

\* a FlushPage of a resident page whose frame is dirty has returned
C16_Witness ==
  /\ last.op = "Flush"
  /\ last.ok
  /\ is_dirty_[last.frame]

\* C17: replacer Unpin of a frame that is already tracked leaves the list,
\* and with it the order of later victims, as it was.
C17_RedundantUnpinKeepsOrder ==
  [][(last'.op = "LRUUnpin" /\ last'.frame \in Range(pages)) =>
       pages' = pages]_vars

\* an Unpin has returned for a frame that is tracked and is not at the back
\* of the list, so it was tracked before the call
C17_Witness ==
  /\ last.op = "LRUUnpin"
  /\ last.frame \in Range(pages)
  /\ pages[Len(pages)] # last.frame

\* C18: after a successful NewPage the new page id maps to the returned
\* frame, which has pin_count 1, is clean, holds zeroed data and is not
\* tracked by the replacer.
C18_NewPageFrameIsFresh ==
  (last.op = "NewPage" /\ last.ok) =>
    /\ page_table_[last.page_id] = last.frame
    /\ pin_count_[last.frame] = 1
    /\ ~is_dirty_[last.frame]
    /\ data_[last.frame] = 0
    /\ last.frame \notin Range(pages)

\* C19: whenever NewPage would pass its pre-check with an empty free list,
\* the replacer has a victim and that victim has a page-table entry.
C19_VictimMustBeTrue ==
  (~crashed /\ ~NewPageRefused /\ free_list_ = <<>>) =>
    (VictimOk(pages) /\ PagesOf(VictimFrame(pages)) # {})

\* C20: the free list holds no frame id twice.
C20_FreeListNoDuplicates ==
  \A i \in 1 .. Len(free_list_), j \in 1 .. Len(free_list_) :
    i # j => free_list_[i] # free_list_[j]

====
